---------------------------- MODULE Spec2Model ----------------------------
(***************************************************************************)
(* OmanX request-handling core: lane routing, response cache, knowledge    *)
(* store and the /chat completion protocol (buffered and SSE streaming).   *)
(*                                                                         *)
(* JavaScript strings are sequences of one-character strings.  A long      *)
(* message is kept run-length encoded as [s, pad]: the characters s        *)
(* followed by pad copies of PadChar.                                      *)
(***************************************************************************)
EXTENDS Integers, Sequences, FiniteSets, TLC

VARIABLES
  reqs,          \* per /chat handler: its locals and its response
  cache,         \* ResponseCache.map in Map iteration (insertion) order
  now,           \* Date.now()
  started,       \* number of /chat requests received so far
  knowledgeJson, \* KnowledgeManager.knowledgeJson
  knowledgeText, \* KnowledgeManager.knowledgeText
  lastMtimeMs,   \* KnowledgeManager.lastMtimeMs
  file,          \* knowledge.json on disk
  loads,         \* the calls of KnowledgeManager.load in flight
  listening,     \* app.listen has been reached
  last,          \* history: the latest operation on the cache
  lru,           \* history: cached keys by last fresh insertion or read-hit
  lruW,          \* history: cached keys by last set (overwrites too) or read-hit
  fifo,          \* history: cached keys by fresh insertion
  env,           \* NODE_ENV === "production" and ADMIN_KEY
  admin          \* the latest request to an admin endpoint and its answer

kvars == <<knowledgeJson, knowledgeText, lastMtimeMs>>
hvars == <<last, lru, lruW, fifo>>
evars == <<file, loads, listening>>
avars == <<env, admin>>
vars == <<reqs, cache, now, started, knowledgeJson, knowledgeText, lastMtimeMs,
          file, loads, listening, last, lru, lruW, fifo, env, admin>>

-----------------------------------------------------------------------------
(* Bounds of the model *)

NumReq == 2
NumLoads == 2
MaxStarted == 2
MaxCacheStarted == 4
MaxStreamStarted == 2
MaxKnowledgeStarted == 1
MaxAdminStarted == 1
MaxKeyStarted == 2
MaxMtime == 3
MaxTime == 2
MaxDeltas == 2
ClassifyMaxLen == 6

(* Configuration (environment) *)

CACHE_TTL_MS == 1
CACHE_MAX_ENTRIES == 2
MaxMessageLen == 10000

Rids == 1..NumReq
Lids == 1..NumLoads

-----------------------------------------------------------------------------
(* JavaScript values and strings *)

Undefined == [t |-> "undefined", s |-> <<>>, pad |-> 0, v |-> 0]
Null == [t |-> "null", s |-> <<>>, pad |-> 0, v |-> 0]
Num(n) == [t |-> "number", s |-> <<>>, pad |-> 0, v |-> n]
JStr(s, pad) == [t |-> "string", s |-> s, pad |-> pad, v |-> 0]

JsLength(m) == Len(m.s) + m.pad

Truthy(x) ==
  CASE x.t = "string" -> JsLength(x) > 0
    [] x.t = "number" -> x.v # 0
    [] OTHER -> FALSE

UpperChars == {"A","B","C","D","E","F","G","H","I","J","K","L","M","N","O","P","Q","R","S","T","U","V","W","X","Y","Z"}

LowerOf ==
  [c \in UpperChars |->
     CASE c = "A" -> "a"
       [] c = "B" -> "b"
       [] c = "C" -> "c"
       [] c = "D" -> "d"
       [] c = "E" -> "e"
       [] c = "F" -> "f"
       [] c = "G" -> "g"
       [] c = "H" -> "h"
       [] c = "I" -> "i"
       [] c = "J" -> "j"
       [] c = "K" -> "k"
       [] c = "L" -> "l"
       [] c = "M" -> "m"
       [] c = "N" -> "n"
       [] c = "O" -> "o"
       [] c = "P" -> "p"
       [] c = "Q" -> "q"
       [] c = "R" -> "r"
       [] c = "S" -> "s"
       [] c = "T" -> "t"
       [] c = "U" -> "u"
       [] c = "V" -> "v"
       [] c = "W" -> "w"
       [] c = "X" -> "x"
       [] c = "Y" -> "y"
       [] c = "Z" -> "z"]

Str(n, c) == [i \in 1..n |-> c]

RECURSIVE Concat(_)
Concat(ss) == IF ss = <<>> THEN <<>> ELSE Head(ss) \o Concat(Tail(ss))

ToLowerCase(t) ==
  [i \in 1..Len(t) |-> IF t[i] \in UpperChars THEN LowerOf[t[i]] ELSE t[i]]

Includes(t, k) ==
  \E i \in 0..(Len(t) - Len(k)) : \A j \in 1..Len(k) : t[i + j] = k[j]

-----------------------------------------------------------------------------
(* Intent routing *)

localHits ==
  << <<"r","e","s","t","a","u","r","a","n","t">>,
     <<"r","e","s","t","a","u","r","a","n","t","s">>,
     <<"f","o","o","d">>,
     <<"e","a","t">>,
     <<"n","e","a","r","b","y">>,
     <<"n","e","a","r"," ","m","e">>,
     <<"c","a","f","e">>,
     <<"c","o","f","f","e","e">>,
     <<"p","i","z","z","a">>,
     <<"b","a","r">>,
     <<"b","r","u","n","c","h">>,
     <<"g","y","m">>,
     <<"g","r","o","c","e","r","y">>,
     <<"s","u","p","e","r","m","a","r","k","e","t">>,
     <<"l","a","u","n","d","r","y">>,
     <<"p","h","i","l","l","y">>,
     <<"p","h","i","l","a","d","e","l","p","h","i","a">>,
     <<"s","p","r","i","n","g"," ","g","a","r","d","e","n">>,
     <<"c","e","n","t","e","r"," ","c","i","t","y">>,
     <<"r","i","t","t","e","n","h","o","u","s","e">>,
     <<"f","i","s","h","t","o","w","n">>,
     <<"o","l","d"," ","c","i","t","y">>,
     <<"u","n","i","v","e","r","s","i","t","y"," ","c","i","t","y">>,
     <<"t","h","i","n","g","s"," ","t","o"," ","d","o">>,
     <<"r","e","c","o","m","m","e","n","d">>,
     <<"r","e","c","o","m","m","e","n","d","a","t","i","o","n">> >>

governedHits ==
  << <<"i","-","2","0">>,
     <<"d","s","-","2","0","1","9">>,
     <<"s","e","v","i","s">>,
     <<"d","s","o">>,
     <<"v","i","s","a">>,
     <<"i","m","m","i","g","r","a","t","i","o","n">>,
     <<"s","t","a","t","u","s">>,
     <<"w","o","r","k"," ","a","u","t","h","o","r","i","z","a","t","i","o","n">>,
     <<"o","p","t">>,
     <<"c","p","t">>,
     <<"l","e","g","a","l">>,
     <<"p","o","l","i","c","e">>,
     <<"e","m","e","r","g","e","n","c","y">>,
     <<"9","1","1">>,
     <<"i","n","s","u","r","a","n","c","e">>,
     <<"m","e","d","i","c","a","l">>,
     <<"h","o","s","p","i","t","a","l">>,
     <<"s","c","h","o","l","a","r","s","h","i","p">>,
     <<"m","i","n","i","s","t","r","y">>,
     <<"f","u","n","d","i","n","g">>,
     <<"r","e","i","m","b","u","r","s","e","m","e","n","t">>,
     <<"h","o","u","s","i","n","g"," ","c","o","n","t","r","a","c","t">>,
     <<"l","e","a","s","e">> >>


RECURSIVE MaxLenOf(_)
MaxLenOf(ks) ==
  IF ks = <<>> THEN 0
  ELSE LET r == MaxLenOf(Tail(ks))
       IN  IF Len(Head(ks)) > r THEN Len(Head(ks)) ELSE r

MaxKeywordLen == MaxLenOf(localHits \o governedHits)
PadChar == "x"

Min(a, b) == IF a < b THEN a ELSE b

(* Every window of at most MaxKeywordLen characters of the full string     *)
(* occurs in s followed by MaxKeywordLen pad characters.                   *)
Window(m) == m.s \o Str(Min(m.pad, MaxKeywordLen), PadChar)

(* hits.some((k) => t.includes(k)) *)
Some(hits, t) == \E n \in 1..Len(hits) : Includes(t, hits[n])

HasGoverned(t) == Some(governedHits, t)
HasLocal(t) == Some(localHits, t)

(* Mutant: the local keywords are tried first *)
isLocalLifeQueryLocalFirst(text) ==
  \E t \in {ToLowerCase(Window(text))} :
    IF HasLocal(t) THEN TRUE ELSE FALSE

(* Mutant: text that matches nothing goes to the local lane *)
isLocalLifeQueryDefaultLocal(text) ==
  \E t \in {ToLowerCase(Window(text))} :
    IF HasGoverned(t) THEN FALSE ELSE TRUE

isLocalLifeQuery(text) ==
  \E t \in {ToLowerCase(Window(text))} :
    IF HasGoverned(t) THEN FALSE ELSE HasLocal(t)

-----------------------------------------------------------------------------
(* Response cache *)

OPENAI_MODEL == <<"g","p","t","-","4",".","1","-","m","i","n","i">>
SEP == <<":", ":">>

MapHas(map, key) == \E i \in 1..Len(map) : map[i].key = key
MapIndex(map, key) == CHOOSE i \in 1..Len(map) : map[i].key = key
MapKeys(map) == {map[i].key : i \in 1..Len(map)}
MapDelete(map, key) == SelectSeq(map, LAMBDA e : e.key # key)
(* Map.prototype.set: an existing key keeps its place in iteration order *)
MapSet(map, key, entry) ==
  LET e == [key |-> key, ts |-> entry.ts, value |-> entry.value]
  IN  IF MapHas(map, key)
      THEN [map EXCEPT ![MapIndex(map, key)] = e]
      ELSE Append(map, e)

DigitOf == [n \in 0..9 |-> CASE n = 0 -> "0" [] n = 1 -> "1" [] n = 2 -> "2"
                               [] n = 3 -> "3" [] n = 4 -> "4" [] n = 5 -> "5"
                               [] n = 6 -> "6" [] n = 7 -> "7" [] n = 8 -> "8"
                               [] OTHER -> "9"]

(* `${x}` *)
TemplateStr(x) ==
  CASE x.t = "string" -> x.s \o Str(x.pad, PadChar)
    [] x.t = "number" -> <<DigitOf[x.v]>>
    [] x.t = "undefined" -> <<"u","n","d","e","f","i","n","e","d">>
    [] OTHER -> <<"n","u","l","l">>

(* x || "" *)
OrEmpty(x) == IF Truthy(x) THEN x ELSE JStr(<<>>, 0)

(* The digest is collision resistant: it is kept as the string it digests. *)
Sha256Hex(pre) == [sha256 |-> pre]

keyFor(model, message, mode, lane) ==
  Sha256Hex([s |-> model \o SEP \o TemplateStr(OrEmpty(mode)) \o SEP
                    \o TemplateStr(OrEmpty(lane)) \o SEP \o message.s,
             pad |-> message.pad])

(* Mutant: an entry expires as soon as its age reaches the TTL *)
CacheGetExpireAtTtl(map, key, t) ==
  IF ~MapHas(map, key) THEN [map |-> map, value |-> Null]
  ELSE LET entry == map[MapIndex(map, key)]
       IN  IF t - entry.ts >= CACHE_TTL_MS
           THEN [map |-> MapDelete(map, key), value |-> Null]
           ELSE [map |-> MapSet(MapDelete(map, key), key, entry),
                 value |-> entry.value]

(* Mutant: a hit does not refresh the recency *)
CacheGetNoRefresh(map, key, t) ==
  IF ~MapHas(map, key) THEN [map |-> map, value |-> Null]
  ELSE LET entry == map[MapIndex(map, key)]
       IN  IF t - entry.ts > CACHE_TTL_MS
           THEN [map |-> MapDelete(map, key), value |-> Null]
           ELSE [map |-> map, value |-> entry.value]

(* Mutant: a hit restarts the entry's lifetime *)
CacheGetSliding(map, key, t) ==
  IF ~MapHas(map, key) THEN [map |-> map, value |-> Null]
  ELSE LET entry == map[MapIndex(map, key)]
       IN  IF t - entry.ts > CACHE_TTL_MS
           THEN [map |-> MapDelete(map, key), value |-> Null]
           ELSE [map |-> MapSet(MapDelete(map, key), key, [entry EXCEPT !.ts = t]),
                 value |-> entry.value]

CacheGet(map, key, t) ==
  IF ~MapHas(map, key) THEN [map |-> map, value |-> Null]
  ELSE LET entry == map[MapIndex(map, key)]
       IN  IF t - entry.ts > CACHE_TTL_MS
           THEN [map |-> MapDelete(map, key), value |-> Null]
           ELSE [map |-> MapSet(MapDelete(map, key), key, entry),
                 value |-> entry.value]

(* Mutant: the eviction starts one entry too late *)
CacheSetOffByOne(map, key, value, t) ==
  LET m1 == MapSet(map, key, [ts |-> t, value |-> value])
  IN  IF Len(m1) > CACHE_MAX_ENTRIES + 1
      THEN MapDelete(m1, m1[1].key)
      ELSE m1

(* oldestKey is a 64-character hex digest, hence truthy *)
CacheSet(map, key, value, t) ==
  LET m1 == MapSet(map, key, [ts |-> t, value |-> value])
  IN  IF Len(m1) > CACHE_MAX_ENTRIES
      THEN MapDelete(m1, m1[1].key)
      ELSE m1

CacheClear(map) == <<>>

-----------------------------------------------------------------------------
(* JSON values, as JSON.parse returns them *)

JV(t, n, s, a) == [t |-> t, n |-> n, s |-> s, a |-> a]
JUndef == JV("undefined", 0, <<>>, <<>>)
JNull == JV("null", 0, <<>>, <<>>)
JBool(b) == JV(IF b THEN "true" ELSE "false", 0, <<>>, <<>>)
JNum(n) == JV("number", n, <<>>, <<>>)
JString(s) == JV("string", 0, s, <<>>)
JArr(a) == JV("array", 0, <<>>, a)
(* an object: its own properties [k, v] in creation order *)
JObj(a) == JV("object", 0, <<>>, a)

JTruthy(x) ==
  CASE x.t \in {"undefined", "null", "false"} -> FALSE
    [] x.t = "number" -> x.n # 0
    [] x.t = "string" -> x.s # <<>>
    [] OTHER -> TRUE

TypeofObject(x) == x.t \in {"null", "array", "object"}
IsArray(x) == x.t = "array"

(* x.name *)
Prop(x, name) ==
  IF x.t = "object" /\ \E i \in 1..Len(x.a) : x.a[i].k = name
  THEN x.a[CHOOSE i \in 1..Len(x.a) : x.a[i].k = name].v
  ELSE JUndef

(* a || b *)
Or(a, b) == IF JTruthy(a) THEN a ELSE b

RECURSIVE Digits(_)
Digits(n) == IF n < 10 THEN <<DigitOf[n]>> ELSE Digits(n \div 10) \o <<DigitOf[n % 10]>>

DigitChars == {DigitOf[n] : n \in 0..9}
DigitVal(c) == CHOOSE n \in 0..9 : DigitOf[n] = c

RECURSIVE NumVal(_)
NumVal(k) == IF k = <<>> THEN 0 ELSE 10 * NumVal(SubSeq(k, 1, Len(k) - 1)) + DigitVal(k[Len(k)])

(* an integer-like property name: these come first, ascending, in Object.entries *)
IsIndexKey(k) ==
  /\ k # <<>>
  /\ \A i \in 1..Len(k) : k[i] \in DigitChars
  /\ (Len(k) = 1 \/ k[1] # "0")

RECURSIVE JoinWith(_, _)
JoinWith(ss, sep) ==
  IF ss = <<>> THEN <<>>
  ELSE IF Len(ss) = 1 THEN ss[1]
  ELSE ss[1] \o sep \o JoinWith(Tail(ss), sep)

(* String(x) and `${x}` *)
RECURSIVE ToStr(_)
ToStr(x) ==
  CASE x.t = "string" -> x.s
    [] x.t = "number" -> Digits(x.n)
    [] x.t = "object" -> <<"[","o","b","j","e","c","t"," ","O","b","j","e","c","t","]">>
    [] x.t = "array" ->
         JoinWith([i \in 1..Len(x.a) |->
                     IF x.a[i].t \in {"null", "undefined"} THEN <<>> ELSE ToStr(x.a[i])],
                  <<",">>)
    [] x.t = "undefined" -> <<"u","n","d","e","f","i","n","e","d">>
    [] x.t = "null" -> <<"n","u","l","l">>
    [] x.t = "true" -> <<"t","r","u","e">>
    [] OTHER -> <<"f","a","l","s","e">>

Whitespace == {" ", "\n", "\t", "\r"}

RECURSIVE TrimStart(_)
TrimStart(s) == IF s # <<>> /\ s[1] \in Whitespace THEN TrimStart(Tail(s)) ELSE s

RECURSIVE TrimEnd(_)
TrimEnd(s) ==
  IF s # <<>> /\ s[Len(s)] \in Whitespace THEN TrimEnd(SubSeq(s, 1, Len(s) - 1)) ELSE s

Trim(s) == TrimEnd(TrimStart(s))

ObjectEntries(x) ==
  IF x.t = "array"
  THEN [i \in 1..Len(x.a) |-> [k |-> Digits(i - 1), v |-> x.a[i]]]
  ELSE SortSeq(SelectSeq(x.a, LAMBDA e : IsIndexKey(e.k)),
               LAMBDA e, f : NumVal(e.k) < NumVal(f.k))
       \o SelectSeq(x.a, LAMBDA e : ~IsIndexKey(e.k))

P_items == <<"i","t","e","m","s">>
P_title == <<"t","i","t","l","e">>
P_name == <<"n","a","m","e">>
P_summary == <<"s","u","m","m","a","r","y">>
P_bullets == <<"b","u","l","l","e","t","s">>
P_links == <<"l","i","n","k","s">>
H2 == <<"#", "#", " ">>
DASH == <<"-", " ">>
REFERENCES == <<"R","e","f","e","r","e","n","c","e","s",":">>

BulletLines(x) ==
  IF IsArray(x) /\ Len(x.a) > 0 THEN [i \in 1..Len(x.a) |-> DASH \o ToStr(x.a[i])] ELSE <<>>

LinkLines(x) ==
  IF IsArray(x) /\ Len(x.a) > 0
  THEN <<REFERENCES>> \o [i \in 1..Len(x.a) |-> DASH \o ToStr(x.a[i])]
  ELSE <<>>

(* prompts.js lines 65-79: one item *)
ItemLines(item) ==
  IF ~JTruthy(item) THEN <<>>
  ELSE <<H2 \o ToStr(Or(Prop(item, P_title), Or(Prop(item, P_name), JString(<<"I","t","e","m">>))))>>
       \o (IF JTruthy(Prop(item, P_summary)) THEN <<ToStr(Prop(item, P_summary))>> ELSE <<>>)
       \o BulletLines(Prop(item, P_bullets))
       \o LinkLines(Prop(item, P_links))
       \o << <<>> >>

(* prompts.js lines 83-110: one section *)
SectionLines(e) ==
  <<H2 \o e.k>> \o
  (IF e.v.t = "string" THEN <<Trim(e.v.s), <<>> >>
   ELSE IF JTruthy(e.v) /\ TypeofObject(e.v)
   THEN (IF JTruthy(Prop(e.v, P_summary)) THEN <<Trim(ToStr(Prop(e.v, P_summary)))>> ELSE <<>>)
        \o BulletLines(Prop(e.v, P_bullets))
        \o LinkLines(Prop(e.v, P_links))
        \o << <<>> >>
   ELSE <<ToStr(e.v), <<>> >>)

(* prompts.js line 112: lines.join("\n").trim(); LineSets holds the one list  *)
(* of lines, and each intermediate string is computed once                   *)
JoinLines(LineSets) ==
  CHOOSE text \in {Trim(joined) : joined \in {JoinWith(lines, <<"\n">>) : lines \in LineSets}} :
    TRUE

buildKnowledgeText(json) ==
  IF ~JTruthy(json) \/ ~TypeofObject(json) THEN <<>>
  ELSE IF IsArray(Prop(json, P_items))
  THEN LET items == Prop(json, P_items).a
       IN  JoinLines({Concat([i \in 1..Len(items) |-> ItemLines(items[i])])})
  ELSE LET entries == ObjectEntries(json)
       IN  JoinLines({Concat([i \in 1..Len(entries) |-> SectionLines(entries[i])])})

-----------------------------------------------------------------------------
(* Knowledge base manager *)

(* result: what the call returned, "true", "false", or "throw" *)
IdleLoad == [pc |-> "idle", force |-> FALSE, kind |-> "", mtimeMs |-> 0, result |-> ""]

Finished(l, result) == [loads EXCEPT ![l] = [IdleLoad EXCEPT !.result = result]]

(* getText() *)
getText == knowledgeText

(* Mutant: the comparison of the modification times is inverted *)
LoadStatInverted(l) ==
  /\ loads[l].pc = "stat"
  /\ IF ~file.exists
     THEN /\ loads' = Finished(l, "throw")
          /\ listening' = (listening \/ loads[l].kind = "startup")
     ELSE IF ~loads[l].force /\ file.mtimeMs >= lastMtimeMs /\ JTruthy(knowledgeJson)
     THEN /\ loads' = Finished(l, "false")
          /\ listening' = (listening \/ loads[l].kind = "startup")
     ELSE /\ loads' = [loads EXCEPT ![l].pc = "read", ![l].mtimeMs = file.mtimeMs]
          /\ UNCHANGED listening
  /\ UNCHANGED <<reqs, cache, now, started, hvars, kvars, file, avars>>

(* load, line 182-183: fs.stat resolved or rejected *)
LoadStat(l) ==
  /\ loads[l].pc = "stat"
  /\ IF ~file.exists
     THEN /\ loads' = Finished(l, "throw")
          /\ listening' = (listening \/ loads[l].kind = "startup")
     ELSE IF ~loads[l].force /\ file.mtimeMs <= lastMtimeMs /\ JTruthy(knowledgeJson)
     THEN /\ loads' = Finished(l, "false")
          /\ listening' = (listening \/ loads[l].kind = "startup")
     ELSE /\ loads' = [loads EXCEPT ![l].pc = "read", ![l].mtimeMs = file.mtimeMs]
          /\ UNCHANGED listening
  /\ UNCHANGED <<reqs, cache, now, started, hvars, kvars, file, avars>>

(* Mutant: a failed read empties the store *)
LoadReadClearsOnFailure(l) ==
  /\ loads[l].pc = "read"
  /\ IF ~file.exists \/ ~file.valid
     THEN /\ knowledgeJson' = JNull
          /\ knowledgeText' = <<>>
          /\ lastMtimeMs' = 0
          /\ loads' = Finished(l, "throw")
     ELSE /\ knowledgeJson' = file.json
          /\ knowledgeText' = buildKnowledgeText(file.json)
          /\ lastMtimeMs' = loads[l].mtimeMs
          /\ loads' = Finished(l, "true")
  /\ listening' = (listening \/ loads[l].kind = "startup")
  /\ UNCHANGED <<reqs, cache, now, started, hvars, file, avars>>

(* Mutant: the text is not rendered again on a load *)
LoadReadStaleText(l) ==
  /\ loads[l].pc = "read"
  /\ IF ~file.exists \/ ~file.valid
     THEN /\ UNCHANGED kvars
          /\ loads' = Finished(l, "throw")
     ELSE /\ knowledgeJson' = file.json
          /\ knowledgeText' = knowledgeText
          /\ lastMtimeMs' = loads[l].mtimeMs
          /\ loads' = Finished(l, "true")
  /\ listening' = (listening \/ loads[l].kind = "startup")
  /\ UNCHANGED <<reqs, cache, now, started, hvars, file, avars>>

(* Mutant: a load that installs a document empties the response cache *)
LoadReadInvalidatesCache(l) ==
  /\ loads[l].pc = "read"
  /\ IF ~file.exists \/ ~file.valid
     THEN /\ UNCHANGED <<kvars, cache>>
          /\ loads' = Finished(l, "throw")
     ELSE /\ loads' = Finished(l, "true")
          /\ knowledgeJson' = file.json
          /\ lastMtimeMs' = loads[l].mtimeMs
          /\ knowledgeText' = buildKnowledgeText(file.json)
          /\ cache' = CacheClear(cache)
  /\ listening' = (listening \/ loads[l].kind = "startup")
  /\ UNCHANGED <<reqs, now, started, hvars, file, avars>>

(* load, lines 185-198: fs.readFile resolved or rejected, JSON.parse, commit *)
LoadRead(l) ==
  /\ loads[l].pc = "read"
  /\ IF ~file.exists \/ ~file.valid
     THEN /\ UNCHANGED kvars
          /\ loads' = Finished(l, "throw")
     ELSE /\ loads' = Finished(l, "true")
          /\ knowledgeJson' = file.json
          /\ lastMtimeMs' = loads[l].mtimeMs
          /\ knowledgeText' = buildKnowledgeText(file.json)
  /\ listening' = (listening \/ loads[l].kind = "startup")
  /\ UNCHANGED <<reqs, cache, now, started, hvars, file, avars>>

(* Lines 368-374: a timer tick calls load(false) *)
TimerTick(l) ==
  /\ listening
  /\ loads[l].pc = "idle"
  /\ loads' = [loads EXCEPT ![l] = [IdleLoad EXCEPT !.pc = "stat", !.kind = "timer"]]
  /\ UNCHANGED <<reqs, cache, now, started, hvars, kvars, file, listening, avars>>

(* Lines 443-450, with requireAdmin passing: load(true) *)
AdminKnowledgeReload(l) ==
  /\ ~env.isProd
  /\ listening
  /\ loads[l].pc = "idle"
  /\ loads' = [loads EXCEPT ![l] = [IdleLoad EXCEPT !.pc = "stat", !.force = TRUE,
                                                    !.kind = "admin"]]
  /\ UNCHANGED <<reqs, cache, now, started, hvars, kvars, file, listening, avars>>

(* knowledge.json is written, with a newer modification time *)
FileWrite(valid, json) ==
  /\ file.mtimeMs < MaxMtime
  /\ file' = [exists |-> TRUE, mtimeMs |-> file.mtimeMs + 1, valid |-> valid, json |-> json]
  /\ UNCHANGED <<reqs, cache, now, started, hvars, kvars, loads, listening, avars>>

(* knowledge.json is removed *)
FileDelete ==
  /\ file.exists
  /\ file' = [file EXCEPT !.exists = FALSE]
  /\ UNCHANGED <<reqs, cache, now, started, hvars, kvars, loads, listening, avars>>

-----------------------------------------------------------------------------
(* Prompts *)

SYSTEM_POLICY_SCHOLAR == <<"SYSTEM_POLICY_SCHOLAR">>
SYSTEM_POLICY_LOCAL == <<"SYSTEM_POLICY_LOCAL">>
SENTINEL == JStr(<<"I"," ","c","o","u","l","d","n","'","t"," ","g","e","n","e","r","a","t","e"," ","a"," ","r","e","s","p","o","n","s","e"," ","r","i","g","h","t"," ","n","o","w",".">>, 0)

LaneStr(lane) ==
  IF lane = "local" THEN JStr(<<"l","o","c","a","l">>, 0)
  ELSE JStr(<<"s","c","h","o","l","a","r">>, 0)

OFFICIAL == JStr(<<"o","f","f","i","c","i","a","l">>, 0)
COMMUNITY == JStr(<<"c","o","m","m","u","n","i","t","y">>, 0)

(* const { message, stream = false, mode = "official" } = req.body || {} *)
DefaultTo(x, d) == IF x.t = "undefined" THEN d ELSE x

(* Mutant: the knowledge block is emitted whatever the text *)
SystemTextAlwaysBlock(lane, mode, kb) ==
  IF lane = "local" THEN <<SYSTEM_POLICY_LOCAL>>
  ELSE <<SYSTEM_POLICY_SCHOLAR, <<"MODE: ">> \o TemplateStr(mode),
         <<"KNOWLEDGE (approved sources):">> \o kb>>

(* The system text as its parts, in order *)
SystemText(lane, mode, kb) ==
  IF lane = "local" THEN <<SYSTEM_POLICY_LOCAL>>
  ELSE <<SYSTEM_POLICY_SCHOLAR, <<"MODE: ">> \o TemplateStr(mode),
         IF kb # <<>> THEN <<"KNOWLEDGE (approved sources):">> \o kb
                      ELSE <<"KNOWLEDGE: (not loaded)">> >>

-----------------------------------------------------------------------------
(* Inputs *)

(* absent, not a string, empty, too long *)
BadMessages == {Undefined, Num(7), JStr(<<>>, 0), JStr(<<>>, MaxMessageLen + 1)}
ModeInputs == {Undefined, COMMUNITY}

Bodies ==
  [message : {JStr(<<"o","p","t">>, 0), JStr(<<"e","a","t">>, 0)},
   stream : BOOLEAN, mode : ModeInputs]
  \cup [message : BadMessages \cup {JStr(<<>>, MaxMessageLen)},
        stream : BOOLEAN, mode : {Undefined}]

NoFile == [exists |-> FALSE, mtimeMs |-> 0, valid |-> FALSE, json |-> JNull]
FileOf(mtimeMs, json) == [exists |-> TRUE, mtimeMs |-> mtimeMs, valid |-> TRUE, json |-> json]
BadFile(mtimeMs) == [exists |-> TRUE, mtimeMs |-> mtimeMs, valid |-> FALSE, json |-> JNull]

DocSections ==
  JObj(<< [k |-> <<"o","p","t">>, v |-> JString(<<"a"," ">>)],
          [k |-> <<"b">>, v |-> JObj(<< [k |-> P_summary, v |-> JString(<<"s">>)],
                                        [k |-> P_links, v |-> JArr(<<JString(<<"l">>)>>)] >>)] >>)

InitialFiles == {NoFile, FileOf(1, DocSections)}

DocItems ==
  JObj(<< [k |-> P_items,
           v |-> JArr(<< JObj(<< [k |-> P_title, v |-> JString(<<"T">>)],
                                 [k |-> P_bullets, v |-> JArr(<<JString(<<"b">>)>>)] >>) >>)] >>)

(* what a write can leave in knowledge.json, when it is valid JSON: two      *)
(* documents, null, and a top-level list                                     *)
KnowledgeContents == {DocSections, DocItems, JNull, JArr(<<JString(<<"x">>)>>)}

Outputs == {JStr(<<>>, 0), JStr(<<"a">>, 0)}
Deltas == {JStr(<<>>, 0), JStr(<<"a">>, 0), JStr(<<"b">>, 0)}
(* err.status of a provider failure; 0 stands for an error without status *)
Failures == {401, 429, 400, 0}

-----------------------------------------------------------------------------
(* History of the cache: what the latest operation on it did *)

NoKey == Sha256Hex([s |-> <<>>, pad |-> 0])
NoBody == [message |-> Undefined, stream |-> FALSE, mode |-> Undefined]

(* t: "lookup" (cache.get), "set" (cache.set) or "clear"; rid, key, body: the    *)
(* request; at: the time; had, age, stored: the entry before the operation;    *)
(* text: the text returned or written; size: the entries before; dropped: the  *)
(* keys the operation removed; follows, gap, doneText: a lookup that directly  *)
(* follows the completion of a non-streaming request with the same message and *)
(* mode, the time since and the text it returned; the heads of the orders      *)
(* before the operation.                                                       *)
NoEvent ==
  [t |-> "none", rid |-> 0, key |-> NoKey, body |-> NoBody, at |-> 0,
   had |-> FALSE, age |-> 0, stored |-> Null,
   text |-> Null, size |-> 0, dropped |-> {},
   follows |-> FALSE, followsStream |-> FALSE, gap |-> 0, doneText |-> Null,
   kb |-> <<>>,
   lruHead |-> NoKey, lruWHead |-> NoKey, fifoHead |-> NoKey]

Touch(order, key) == Append(SelectSeq(order, LAMBDA k : k # key), key)
Without(order, keys) == SelectSeq(order, LAMBDA k : k \notin keys)
HeadOr(order) == IF order = <<>> THEN NoKey ELSE Head(order)
TsOf(map, key) == map[MapIndex(map, key)].ts
ValueOf(map, key) == map[MapIndex(map, key)].value

LookupEvent(rid, key, body, map2, got) ==
  LET had == MapHas(cache, key)
      same == /\ last.t = "set"
              /\ last.body.message = body.message
              /\ last.body.mode = body.mode
      follows == same /\ ~last.body.stream
  IN  [NoEvent EXCEPT !.t = "lookup", !.rid = rid, !.key = key, !.body = body,
                      !.at = now, !.had = had,
                      !.age = IF had THEN now - TsOf(cache, key) ELSE 0,
                      !.stored = IF had THEN ValueOf(cache, key) ELSE Null,
                      !.text = got, !.size = Len(cache),
                      !.dropped = MapKeys(cache) \ MapKeys(map2),
                      !.follows = follows,
                      !.followsStream = same /\ last.body.stream,
                      !.gap = IF same THEN now - last.at ELSE 0,
                      !.doneText = IF same THEN last.text ELSE Null,
                      !.kb = knowledgeText]

SetEvent(rid, key, body, map2, text) ==
  [NoEvent EXCEPT !.t = "set", !.rid = rid, !.key = key, !.body = body, !.at = now,
                  !.had = MapHas(cache, key), !.text = text, !.size = Len(cache),
                  !.dropped = MapKeys(cache) \ MapKeys(map2),
                  !.lruHead = HeadOr(lru), !.lruWHead = HeadOr(lruW),
                  !.fifoHead = HeadOr(fifo)]

HistoryAfterLookup(rid, key, body, map2, got) ==
  LET e == LookupEvent(rid, key, body, map2, got)
      hit == e.had /\ e.age <= CACHE_TTL_MS
  IN  /\ last' = e
      /\ lru' = IF hit THEN Touch(lru, key) ELSE Without(lru, {key})
      /\ lruW' = IF hit THEN Touch(lruW, key) ELSE Without(lruW, {key})
      /\ fifo' = IF hit THEN fifo ELSE Without(fifo, {key})

HistoryAfterSet(rid, key, body, map2, text) ==
  LET e == SetEvent(rid, key, body, map2, text)
  IN  /\ last' = e
      /\ lru' = Without(IF e.had THEN lru ELSE Touch(lru, key), e.dropped)
      /\ lruW' = Without(Touch(lruW, key), e.dropped)
      /\ fifo' = Without(IF e.had THEN fifo ELSE Append(fifo, key), e.dropped)

-----------------------------------------------------------------------------
(* POST /chat *)

(* err.status: NoError before any catch, 0 for an error without status *)
NoError == 0 - 1

Idle ==
  [pc |-> "idle", body |-> NoBody,
   mode |-> Undefined, lane |-> "", cacheKey |-> NoKey, systemText |-> <<>>,
   fullText |-> <<>>, emitted |-> <<>>, events |-> <<>>,
   headersSent |-> FALSE, ended |-> FALSE, status |-> 0, json |-> Null,
   cached |-> FALSE, error |-> "", errStatus |-> NoError,
   clientGone |-> FALSE, upstream |-> "none",
   reads |-> 0, writes |-> 0, calls |-> 0, knReads |-> 0, output |-> Null]

(* line 468 *)
MissingMessage(message) == ~Truthy(message) \/ message.t # "string"

(* Mutant: a message of exactly the maximum length is rejected *)
TooLongInclusive(message) == JsLength(message) >= MaxMessageLen

(* line 471 *)
TooLong(message) == JsLength(message) > MaxMessageLen

(* line 475 *)
LaneOf(message) == IF isLocalLifeQuery(message) THEN "local" ELSE "scholar"

(* Lines 463-518: everything up to the first await *)
ChatStart(r, body) ==
  /\ listening
  /\ reqs[r].pc \in {"idle", "done"}
  /\ \A q \in 1..(r - 1) : reqs[q].pc \notin {"idle", "done"}
  /\ started' = started + 1
  /\ LET message == body.message
         mode == DefaultTo(body.mode, OFFICIAL)
         base == [Idle EXCEPT !.body = body, !.mode = mode]
     IN
     IF MissingMessage(message)
     THEN /\ reqs' = [reqs EXCEPT ![r] = [base EXCEPT !.pc = "done", !.status = 400,
                                           !.error = "Missing 'message' string."]]
          /\ UNCHANGED <<cache, hvars>>
     ELSE IF TooLong(message)
     THEN /\ reqs' = [reqs EXCEPT ![r] = [base EXCEPT !.pc = "done", !.status = 400,
                                           !.error = "Message too long (max 10,000 chars)."]]
          /\ UNCHANGED <<cache, hvars>>
     ELSE
       \E lane \in {LaneOf(message)} :
       \E cacheKey \in {keyFor(OPENAI_MODEL, message, mode, LaneStr(lane))} :
       \E got \in {CacheGet(cache, cacheKey, now)} :
       LET r1 == [base EXCEPT !.lane = lane, !.cacheKey = cacheKey]
           r2 == [r1 EXCEPT !.systemText = SystemText(lane, mode, getText),
                             !.knReads = IF lane = "local" THEN 0 ELSE 1,
                             !.calls = 1]
       IN
       IF ~body.stream
       THEN /\ cache' = got.map
            /\ HistoryAfterLookup(r, cacheKey, body, got.map, got.value)
            /\ IF Truthy(got.value)
               THEN reqs' = [reqs EXCEPT ![r] = [r1 EXCEPT !.pc = "done", !.status = 200,
                                                  !.json = got.value, !.cached = TRUE,
                                                  !.reads = 1]]
               ELSE reqs' = [reqs EXCEPT ![r] = [r2 EXCEPT !.pc = "invoking",
                                                  !.reads = 1]]
       ELSE /\ reqs' = [reqs EXCEPT ![r] = [r2 EXCEPT !.pc = "opening",
                                             !.headersSent = TRUE]]
            /\ UNCHANGED <<cache, hvars>>
  /\ UNCHANGED <<now, kvars, evars, avars>>

(* Mutant: the provider's output is stored as it came, the sentinel is only sent *)
CreateReturnCachesRaw(r, out) ==
  /\ reqs[r].pc = "invoking"
  /\ LET text == IF Truthy(out) THEN out ELSE SENTINEL
         key == reqs[r].cacheKey
         map == CacheSet(cache, key, out, now)
     IN  /\ cache' = map
         /\ HistoryAfterSet(r, key, reqs[r].body, map, out)
         /\ reqs' = [reqs EXCEPT ![r].pc = "done", ![r].status = 200,
                                 ![r].json = text, ![r].cached = FALSE,
                                 ![r].writes = @ + 1, ![r].output = out]
  /\ UNCHANGED <<now, started, kvars, evars, avars>>

(* Lines 561-571: client.responses.create resolved *)
CreateReturn(r, out) ==
  /\ reqs[r].pc = "invoking"
  /\ LET text == IF Truthy(out) THEN out ELSE SENTINEL
         key == reqs[r].cacheKey
         map == CacheSet(cache, key, text, now)
     IN  /\ cache' = map
         /\ HistoryAfterSet(r, key, reqs[r].body, map, text)
         /\ reqs' = [reqs EXCEPT ![r].pc = "done", ![r].status = 200,
                                 ![r].json = text, ![r].cached = FALSE,
                                 ![r].writes = @ + 1, ![r].output = out]
  /\ UNCHANGED <<now, started, kvars, evars, avars>>

(* Mutant: the provider's status is passed through to the caller *)
ErrorStatusPassThrough(status) == IF status = 0 THEN 500 ELSE status

(* Lines 572-589: the catch block *)
ErrorStatus(status) ==
  CASE status = 401 -> 500
    [] status = 429 -> 429
    [] status = 400 -> 500
    [] OTHER -> 500

ErrorMessage(status) ==
  CASE status = 401 -> "OpenAI authentication error."
    [] status = 429 -> "OpenAI rate limit exceeded. Try again later."
    [] status = 400 -> "OpenAI request was rejected (400). Check model/input formatting."
    [] OTHER -> "Server error."

(* client.responses.create rejected *)
CreateFail(r, status) ==
  /\ reqs[r].pc = "invoking"
  /\ reqs' = [reqs EXCEPT ![r].pc = "done", ![r].status = ErrorStatus(status),
                          ![r].error = ErrorMessage(status),
                          ![r].errStatus = status]
  /\ UNCHANGED <<cache, now, started, hvars, kvars, evars, avars>>

(* Lines 512-549: client.responses.stream resolved, the handlers are registered *)
StreamOpened(r) ==
  /\ reqs[r].pc = "opening"
  /\ reqs' = [reqs EXCEPT ![r].pc = "streaming", ![r].upstream = "open"]
  /\ UNCHANGED <<cache, now, started, hvars, kvars, evars, avars>>

(* client.responses.stream rejected: the catch block runs with the headers *)
(* already flushed, so res.json cannot send its body and no event is written *)
StreamOpenFail(r, status) ==
  /\ reqs[r].pc = "opening"
  /\ reqs' = [reqs EXCEPT ![r].pc = "done", ![r].status = ErrorStatus(status),
                          ![r].error = ErrorMessage(status),
                          ![r].errStatus = status]
  /\ UNCHANGED <<cache, now, started, hvars, kvars, evars, avars>>

(* Mutant: every delta also stores the text so far *)
StreamDeltaCaching(r, delta) ==
  /\ reqs[r].pc = "streaming"
  /\ Len(reqs[r].emitted) < MaxDeltas
  /\ LET full == IF ~Truthy(delta) THEN reqs[r].fullText ELSE reqs[r].fullText \o delta.s
         map == CacheSet(cache, reqs[r].cacheKey, JStr(full, 0), now)
     IN  /\ cache' = map
         /\ HistoryAfterSet(r, reqs[r].cacheKey, reqs[r].body, map, JStr(full, 0))
         /\ reqs' = [reqs EXCEPT
              ![r].emitted = Append(@, delta),
              ![r].fullText = full,
              ![r].writes = @ + 1,
              ![r].events = IF ~Truthy(delta) THEN @
                            ELSE Append(@, [type |-> "delta", delta |-> delta.s])]
  /\ UNCHANGED <<now, started, kvars, evars, avars>>

(* Lines 520-525 *)
StreamDelta(r, delta) ==
  /\ reqs[r].pc = "streaming"
  /\ Len(reqs[r].emitted) < MaxDeltas
  /\ reqs' = [reqs EXCEPT
       ![r].emitted = Append(@, delta),
       ![r].fullText = IF ~Truthy(delta) THEN @ ELSE @ \o delta.s,
       ![r].events = IF ~Truthy(delta) THEN @
                     ELSE Append(@, [type |-> "delta", delta |-> delta.s])]
  /\ UNCHANGED <<cache, now, started, hvars, kvars, evars, avars>>

(* Lines 527-532 *)
StreamCompleted(r) ==
  /\ reqs[r].pc = "streaming"
  /\ LET key == reqs[r].cacheKey
         text == JStr(reqs[r].fullText, 0)
         map == CacheSet(cache, key, text, now)
     IN  /\ cache' = map
         /\ HistoryAfterSet(r, key, reqs[r].body, map, text)
         /\ reqs' = [reqs EXCEPT ![r].pc = "done",
                                 ![r].events = Append(@, [type |-> "done", delta |-> <<>>]),
                                 ![r].ended = TRUE,
                                 ![r].upstream = "ended",
                                 ![r].writes = @ + 1]
  /\ UNCHANGED <<now, started, kvars, evars, avars>>

(* Mutant: the text received before the error is stored *)
StreamErrorCaching(r) ==
  /\ reqs[r].pc = "streaming"
  /\ LET key == reqs[r].cacheKey
         text == JStr(reqs[r].fullText, 0)
         map == CacheSet(cache, key, text, now)
     IN  /\ cache' = map
         /\ HistoryAfterSet(r, key, reqs[r].body, map, text)
  /\ reqs' = [reqs EXCEPT ![r].pc = "done",
                          ![r].events = Append(@, [type |-> "error", delta |-> <<>>]),
                          ![r].ended = TRUE,
                          ![r].upstream = "ended"]
  /\ UNCHANGED <<now, started, kvars, evars, avars>>

(* Lines 534-541 *)
StreamError(r) ==
  /\ reqs[r].pc = "streaming"
  /\ reqs' = [reqs EXCEPT ![r].pc = "done",
                          ![r].events = Append(@, [type |-> "error", delta |-> <<>>]),
                          ![r].ended = TRUE,
                          ![r].upstream = "ended"]
  /\ UNCHANGED <<cache, now, started, hvars, kvars, evars, avars>>

(* Lines 543-547: the caller goes away while its event stream is open.  The *)
(* close handler exists only once line 543 has run, after the await of     *)
(* line 512: before that the close event finds no listener.                *)
ClientDisconnect(r) ==
  /\ reqs[r].pc \in {"opening", "streaming"}
  /\ ~reqs[r].clientGone
  /\ reqs' = [reqs EXCEPT
       ![r].clientGone = TRUE,
       ![r].pc = IF reqs[r].pc = "streaming" THEN "done" ELSE @,
       ![r].upstream = IF reqs[r].pc = "streaming" THEN "closed" ELSE @]
  /\ UNCHANGED <<cache, now, started, hvars, kvars, evars, avars>>

(* Lines 429-436.  header is req.headers["x-admin-key"], bodyKey is         *)
(* req.body?.adminKey                                                      *)
requireAdmin(header, bodyKey) ==
  IF ~env.isProd THEN TRUE
  ELSE LET first == IF Truthy(header) THEN header
                    ELSE IF Truthy(bodyKey) THEN bodyKey ELSE JStr(<<>>, 0)
           key == TemplateStr(first)
       IN  ~(env.adminKey = <<>> \/ key # env.adminKey)

NoAdmin == [path |-> "", header |-> Undefined, bodyKey |-> Undefined, status |-> 0]

(* Lines 438-441 behind requireAdmin *)
AdminCacheClearRequest(header, bodyKey) ==
  /\ listening
  /\ IF requireAdmin(header, bodyKey)
     THEN /\ cache' = CacheClear(cache)
          /\ last' = [NoEvent EXCEPT !.t = "clear", !.at = now, !.size = Len(cache),
                                     !.dropped = MapKeys(cache)]
          /\ lru' = <<>>
          /\ lruW' = <<>>
          /\ fifo' = <<>>
          /\ admin' = [path |-> "cache", header |-> header, bodyKey |-> bodyKey,
                       status |-> 200]
     ELSE /\ admin' = [path |-> "cache", header |-> header, bodyKey |-> bodyKey,
                       status |-> 403]
          /\ UNCHANGED <<cache, hvars>>
  /\ UNCHANGED <<reqs, now, started, kvars, evars, env>>

(* Lines 443-445 behind requireAdmin: load(true) is called; status 0 stands *)
(* for the answer that follows the load                                     *)
AdminKnowledgeReloadRequest(l, header, bodyKey) ==
  /\ listening
  /\ loads[l].pc = "idle"
  /\ IF requireAdmin(header, bodyKey)
     THEN /\ loads' = [loads EXCEPT ![l] = [IdleLoad EXCEPT !.pc = "stat", !.force = TRUE,
                                                            !.kind = "admin"]]
          /\ admin' = [path |-> "knowledge", header |-> header, bodyKey |-> bodyKey,
                       status |-> 0]
     ELSE /\ admin' = [path |-> "knowledge", header |-> header, bodyKey |-> bodyKey,
                       status |-> 403]
          /\ UNCHANGED loads
  /\ UNCHANGED <<reqs, cache, now, started, hvars, kvars, file, listening, env>>

(* Lines 438-441, with requireAdmin passing (development mode) *)
AdminCacheClear ==
  /\ ~env.isProd
  /\ listening
  /\ cache # <<>>
  /\ cache' = CacheClear(cache)
  /\ last' = [NoEvent EXCEPT !.t = "clear", !.at = now, !.size = Len(cache),
                             !.dropped = MapKeys(cache)]
  /\ lru' = <<>>
  /\ lruW' = <<>>
  /\ fifo' = <<>>
  /\ UNCHANGED <<reqs, now, started, kvars, evars, avars>>

(* The clock advances *)
Tick ==
  /\ now < MaxTime
  /\ now' = now + 1
  /\ UNCHANGED <<reqs, cache, started, hvars, kvars, evars, avars>>

-----------------------------------------------------------------------------
(* The server: startup load, then every /chat path *)

BootState ==
  /\ reqs = [r \in Rids |-> Idle]
  /\ cache = <<>>
  /\ now = 0
  /\ started = 0
  /\ knowledgeJson = JNull
  /\ knowledgeText = <<>>
  /\ lastMtimeMs = 0
  /\ loads = [l \in Lids |-> IF l = 1 THEN [IdleLoad EXCEPT !.pc = "stat", !.force = TRUE,
                                                           !.kind = "startup"]
                                     ELSE IdleLoad]
  /\ listening = FALSE
  /\ last = NoEvent
  /\ lru = <<>>
  /\ lruW = <<>>
  /\ fifo = <<>>
  /\ admin = NoAdmin

Boot == BootState /\ file \in InitialFiles

(* NODE_ENV and ADMIN_KEY unset *)
DevEnv == [isProd |-> FALSE, adminKey |-> <<>>]

Init == Boot /\ env = DevEnv

Next ==
  \/ \E l \in Lids : LoadStat(l)
  \/ \E l \in Lids : LoadRead(l)
  \/ \E r \in Rids, body \in Bodies : started < MaxStarted /\ ChatStart(r, body)
  \/ \E r \in Rids, out \in Outputs : CreateReturn(r, out)
  \/ \E r \in Rids, status \in Failures : CreateFail(r, status)
  \/ \E r \in Rids : StreamOpened(r)
  \/ \E r \in Rids, status \in Failures : StreamOpenFail(r, status)
  \/ \E r \in Rids, delta \in Deltas : StreamDelta(r, delta)
  \/ \E r \in Rids : StreamCompleted(r)
  \/ \E r \in Rids : StreamError(r)
  \/ Tick

Spec == Init /\ [][Next]_vars

-----------------------------------------------------------------------------
(* The cache under load: valid requests only, one provider answer *)

CacheBodies ==
  [message : {JStr(<<"o","p","t">>, 0), JStr(<<"e","a","t">>, 0), JStr(<<"h","i">>, 0)},
   stream : BOOLEAN, mode : {Undefined}]

CacheInit == Init /\ file = FileOf(1, DocSections)

CacheNext ==
  \/ \E l \in Lids : LoadStat(l)
  \/ \E l \in Lids : LoadRead(l)
  \/ \E r \in Rids, body \in CacheBodies : started < MaxCacheStarted /\ ChatStart(r, body)
  \/ \E r \in Rids : CreateReturn(r, JStr(<<"a">>, 0))
  \/ \E r \in Rids : StreamOpened(r)
  \/ \E r \in Rids : StreamCompleted(r)
  \/ AdminCacheClear
  \/ Tick

CacheSpec == CacheInit /\ [][CacheNext]_vars

-----------------------------------------------------------------------------
(* The classifier on every short message over a small alphabet *)

ClassifyAlphabet == {"o", "p", "t", "e", "a", "T"}
ClassifyMessages ==
  UNION {[1..n -> ClassifyAlphabet] : n \in 1..ClassifyMaxLen}

ClassifyInit == Init /\ file = NoFile

ClassifyNext ==
  \/ \E l \in Lids : LoadStat(l)
  \/ /\ started = 0
     /\ \E s \in ClassifyMessages :
          ChatStart(1, [message |-> JStr(s, 0), stream |-> FALSE, mode |-> Undefined])

ClassifySpec == ClassifyInit /\ [][ClassifyNext]_vars

-----------------------------------------------------------------------------
(* The knowledge store under reloads: the file changes, the timer ticks, an *)
(* administrator forces reloads, a request reads the text                   *)

KnowledgeBodies ==
  [message : {JStr(<<"o","p","t">>, 0)}, stream : {FALSE}, mode : {Undefined}]

KnowledgeNext ==
  \/ \E l \in Lids : LoadStat(l)
  \/ \E l \in Lids : LoadRead(l)
  \/ \E l \in Lids : TimerTick(l)
  \/ \E l \in Lids : AdminKnowledgeReload(l)
  \/ \E json \in KnowledgeContents : FileWrite(TRUE, json)
  \/ FileWrite(FALSE, JNull)
  \/ FileDelete
  \/ \E r \in Rids, body \in KnowledgeBodies :
       started < MaxKnowledgeStarted /\ ChatStart(r, body)
  \/ \E r \in Rids : CreateReturn(r, JStr(<<"a">>, 0))

KnowledgeSpec == Init /\ [][KnowledgeNext]_vars

-----------------------------------------------------------------------------
(* The admin endpoints, in development and in production, with and without *)
(* a configured key                                                        *)

Envs == [isProd : BOOLEAN, adminKey : {<<>>, <<"k">>}]
AdminKeys == {Undefined, JStr(<<>>, 0), JStr(<<"k">>, 0), JStr(<<"z">>, 0)}

AdminInit == Boot /\ env \in Envs /\ file = FileOf(1, DocSections)

AdminNext ==
  \/ \E l \in Lids : LoadStat(l)
  \/ \E l \in Lids : LoadRead(l)
  \/ FileWrite(TRUE, DocItems)
  \/ \E header \in AdminKeys, bodyKey \in AdminKeys : AdminCacheClearRequest(header, bodyKey)
  \/ \E l \in Lids, header \in AdminKeys, bodyKey \in AdminKeys :
       AdminKnowledgeReloadRequest(l, header, bodyKey)
  \/ \E r \in Rids, body \in KnowledgeBodies :
       started < MaxAdminStarted /\ ChatStart(r, body)
  \/ \E r \in Rids : CreateReturn(r, JStr(<<"a">>, 0))

AdminSpec == AdminInit /\ [][AdminNext]_vars

-----------------------------------------------------------------------------
(* Reloads between two requests for the same answer *)

MaxReloadStarted == 3

ReloadBodies ==
  [message : {JStr(<<"o","p","t">>, 0)}, stream : {FALSE}, mode : {Undefined}]

ReloadInit == Init /\ file = FileOf(1, DocSections)

ReloadNext ==
  \/ \E l \in Lids : LoadStat(l)
  \/ \E l \in Lids : LoadRead(l)
  \/ \E l \in Lids : TimerTick(l)
  \/ \E l \in Lids : AdminKnowledgeReload(l)
  \/ FileWrite(TRUE, DocItems)
  \/ \E r \in Rids, body \in ReloadBodies : started < MaxReloadStarted /\ ChatStart(r, body)
  \/ \E r \in Rids : CreateReturn(r, JStr(<<"a">>, 0))
  \/ Tick

ReloadSpec == ReloadInit /\ [][ReloadNext]_vars

-----------------------------------------------------------------------------
(* Rendering: sections documents over a few section identifiers *)

MaxSections == 3
MaxRenderStarted == 1

SectionIds == {<<"a">>, <<"b">>, <<"1">>, <<"2">>}

(* documents of one to MaxSections sections, each identifier at most once,   *)
(* in every order a file can hold them                                       *)
RenderDocs ==
  {JObj([i \in DOMAIN ids |-> [k |-> ids[i], v |-> JString(<<"x">> \o ids[i])]]) :
     ids \in {s \in UNION {[1..n -> SectionIds] : n \in 1..MaxSections} :
               \A i, j \in DOMAIN s : i # j => s[i] # s[j]}}

RenderBodies ==
  [message : {JStr(<<"o","p","t">>, 0)}, stream : {FALSE}, mode : {Undefined}]

RenderInit == BootState /\ env = DevEnv /\ file \in {FileOf(1, doc) : doc \in RenderDocs}

RenderNext ==
  \/ \E l \in Lids : LoadStat(l)
  \/ \E l \in Lids : LoadRead(l)
  \/ \E l \in Lids : AdminKnowledgeReload(l)
  \/ \E r \in Rids, body \in RenderBodies : started < MaxRenderStarted /\ ChatStart(r, body)

RenderSpec == RenderInit /\ [][RenderNext]_vars

-----------------------------------------------------------------------------
(* The reload timer alone: it keeps firing, and every fs call ends *)

TimerNext ==
  \/ \E l \in Lids : LoadStat(l)
  \/ \E l \in Lids : LoadRead(l)
  \/ \E l \in Lids : TimerTick(l)
  \/ \E json \in KnowledgeContents : FileWrite(TRUE, json)
  \/ FileWrite(FALSE, JNull)
  \/ FileDelete

TimerSpec ==
  /\ Init
  /\ [][TimerNext]_vars
  /\ WF_vars(\E l \in Lids : TimerTick(l))
  /\ \A l \in Lids : WF_vars(LoadStat(l)) /\ WF_vars(LoadRead(l))

-----------------------------------------------------------------------------
(* Cache keys: messages and modes that hold the separator of the key *)

KeyMessages == {JStr(<<"b">>, 0), JStr(<<"c", ":", ":", "s","c","h","o","l","a","r", ":", ":", "b">>, 0)}
KeyModes ==
  {Undefined, Null, OFFICIAL, COMMUNITY,
   JStr(<<"o","f","f","i","c","i","a","l", ":", ":", "s","c","h","o","l","a","r", ":", ":", "c">>, 0)}

KeyBodies == [message : KeyMessages, stream : {FALSE}, mode : KeyModes]

KeyInit == Init /\ file = NoFile

KeyNext ==
  \/ \E l \in Lids : LoadStat(l)
  \/ \E r \in Rids, body \in KeyBodies : started < MaxKeyStarted /\ ChatStart(r, body)
  \/ \E r \in Rids : CreateReturn(r, JStr(<<"a">>, 0))

KeySpec == KeyInit /\ [][KeyNext]_vars

-----------------------------------------------------------------------------
(* One message, streamed and not, with callers that go away *)

StreamBodies ==
  [message : {JStr(<<"o","p","t">>, 0)}, stream : BOOLEAN, mode : {Undefined}]

StreamInit == Init /\ file = FileOf(1, DocSections)

StreamNext ==
  \/ \E l \in Lids : LoadStat(l)
  \/ \E l \in Lids : LoadRead(l)
  \/ \E r \in Rids, body \in StreamBodies : started < MaxStreamStarted /\ ChatStart(r, body)
  \/ \E r \in Rids, out \in Outputs : CreateReturn(r, out)
  \/ \E r \in Rids : StreamOpened(r)
  \/ \E r \in Rids, status \in Failures : StreamOpenFail(r, status)
  \/ \E r \in Rids, delta \in Deltas : StreamDelta(r, delta)
  \/ \E r \in Rids : StreamCompleted(r)
  \/ \E r \in Rids : StreamError(r)
  \/ \E r \in Rids : ClientDisconnect(r)
  \/ Tick

StreamSpec == StreamInit /\ [][StreamNext]_vars

-----------------------------------------------------------------------------
(* Properties *)

Occurs(k, t) ==
  \E i \in 1..Len(t) : i + Len(k) - 1 <= Len(t) /\ SubSeq(t, i, i + Len(k) - 1) = k

Lowered(message) == ToLowerCase(Window(message))
ContainsGoverned(message) ==
  \E n \in 1..Len(governedHits) : Occurs(governedHits[n], Lowered(message))
ContainsLocal(message) ==
  \E n \in 1..Len(localHits) : Occurs(localHits[n], Lowered(message))

(* the request in slot r passed validation *)
Accepted(r) == reqs[r].pc # "idle" /\ reqs[r].status # 400

(* C1: a message whose lower-cased text contains a governed-topic keyword is *)
(* routed to the scholar lane, whatever local-life keywords it also holds,   *)
(* and is never given the local-lane policy.                                 *)
C1_GovernedAlwaysScholar ==
  \A r \in Rids :
    Accepted(r) /\ ContainsGoverned(reqs[r].body.message) =>
      /\ reqs[r].lane = "scholar"
      /\ reqs[r].systemText # <<SYSTEM_POLICY_LOCAL>>

C1_Witness ==
  \E r \in Rids :
    /\ Accepted(r)
    /\ ContainsGoverned(reqs[r].body.message)
    /\ ContainsLocal(reqs[r].body.message)
    /\ reqs[r].pc = "invoking"
    /\ reqs[r].systemText[1] = SYSTEM_POLICY_SCHOLAR

(* C2: the lane is local exactly when the message contains a local-life      *)
(* keyword and no governed-topic keyword; every other message, also one that *)
(* matches neither list, goes to the scholar lane.                           *)
C2_LocalIffOnlyLocal ==
  \A r \in Rids :
    Accepted(r) =>
      /\ reqs[r].lane \in {"local", "scholar"}
      /\ reqs[r].lane = "local" <=>
           (ContainsLocal(reqs[r].body.message) /\ ~ContainsGoverned(reqs[r].body.message))

C2_Witness ==
  \E r \in Rids :
    /\ Accepted(r)
    /\ reqs[r].lane = "local"
    /\ reqs[r].body.message.s # ToLowerCase(reqs[r].body.message.s)
    /\ reqs[r].systemText = <<SYSTEM_POLICY_LOCAL>>

(* C3: a request whose message is absent, not a string, empty or longer than *)
(* 10,000 characters ends with status 400 before any cache read or write,    *)
(* knowledge read, provider call or opening of the event stream, also with   *)
(* stream = true; a message of exactly 10,000 characters is accepted.        *)
BadMessage(m) == m.t # "string" \/ JsLength(m) = 0 \/ JsLength(m) > MaxMessageLen

C3_RejectedBeforeAnyEffect ==
  /\ \A r \in Rids :
       reqs[r].pc # "idle" =>
         /\ BadMessage(reqs[r].body.message) =>
              /\ reqs[r].pc = "done"
              /\ reqs[r].status = 400
              /\ reqs[r].reads = 0 /\ reqs[r].writes = 0
              /\ reqs[r].knReads = 0 /\ reqs[r].calls = 0
              /\ ~reqs[r].headersSent /\ reqs[r].events = <<>>
         /\ (reqs[r].body.message.t = "string"
             /\ JsLength(reqs[r].body.message) = MaxMessageLen) => reqs[r].status # 400
  /\ last.t \in {"lookup", "set"} => ~BadMessage(last.body.message)

C3_Witness ==
  \E r, q \in Rids :
    /\ BadMessage(reqs[r].body.message) /\ reqs[r].body.stream /\ reqs[r].status = 400
    /\ JsLength(reqs[q].body.message) = MaxMessageLen /\ reqs[q].status = 200

(* C4: a non-streaming request that directly follows the successful          *)
(* completion of a non-streaming request with the same message and mode,     *)
(* within the TTL, is answered with cached: true and the same text, without  *)
(* a provider call and without a cache write.                                *)
C4_SecondRequestHits ==
  (last.t = "lookup" /\ last.follows /\ last.gap <= CACHE_TTL_MS
     /\ CACHE_MAX_ENTRIES >= 1) =>
    /\ last.text = last.doneText
    /\ MapHas(cache, last.key)
    /\ ValueOf(cache, last.key) = last.doneText
    /\ TsOf(cache, last.key) = last.at - last.gap
    /\ reqs[last.rid].body = last.body =>
         /\ reqs[last.rid].pc = "done"
         /\ reqs[last.rid].status = 200
         /\ reqs[last.rid].cached
         /\ reqs[last.rid].json = last.doneText
         /\ reqs[last.rid].calls = 0
         /\ reqs[last.rid].writes = 0

C4_Witness ==
  /\ last.t = "lookup" /\ last.follows /\ last.gap = CACHE_TTL_MS
  /\ reqs[last.rid].body = last.body
  /\ reqs[last.rid].cached
  /\ reqs[last.rid].json = last.doneText

(* C5: a /chat request performs at most one cache read, at most one cache    *)
(* write and at most one provider call on every path, and no step of a       *)
(* request changes the knowledge store.                                      *)
C5_AtMostOnce ==
  /\ [](\A r \in Rids : reqs[r].reads <= 1 /\ reqs[r].writes <= 1 /\ reqs[r].calls <= 1)
  /\ [][reqs' # reqs => UNCHANGED kvars]_vars

C5_Witness ==
  \E r, q \in Rids :
    /\ knowledgeText # <<>>
    /\ reqs[r].pc = "done" /\ ~reqs[r].body.stream
    /\ reqs[r].reads = 1 /\ reqs[r].calls = 1 /\ reqs[r].writes = 1 /\ reqs[r].knReads = 1
    /\ reqs[q].pc = "done" /\ reqs[q].body.stream
    /\ reqs[q].reads = 0 /\ reqs[q].calls = 1 /\ reqs[q].writes = 1

(* C6: the cache never holds more than maxEntries entries (maxEntries >= 1), *)
(* under every interleaving of reads, writes and clears, and a set removes   *)
(* at most one entry.                                                        *)
C6_SizeBound ==
  CACHE_MAX_ENTRIES >= 1 =>
    /\ Len(cache) <= CACHE_MAX_ENTRIES
    /\ last.t = "set" => Cardinality(last.dropped) <= 1

C6_Witness ==
  /\ last.t = "set"
  /\ Cardinality(last.dropped) = 1
  /\ Len(cache) = CACHE_MAX_ENTRIES
  /\ \E r \in Rids : reqs[r].pc \in {"invoking", "streaming"}

(* C7: inserting a new key into a cache that holds maxEntries entries leaves *)
(* maxEntries entries and removes the entry whose latest insertion or        *)
(* read-hit is the oldest (a key is inserted when it enters the map).        *)
C7_EvictsLeastRecentlyUsed ==
  (last.t = "set" /\ ~last.had /\ last.size = CACHE_MAX_ENTRIES) =>
    /\ Len(cache) = CACHE_MAX_ENTRIES
    /\ last.dropped = {last.lruHead}

(* the entry inserted first had been read and so outlived a younger one *)
C7_Witness ==
  /\ last.t = "set" /\ ~last.had /\ last.size = CACHE_MAX_ENTRIES
  /\ last.dropped = {last.lruHead}
  /\ last.lruHead # last.fifoHead
  /\ MapHas(cache, last.fifoHead)

(* C8: a set on a key that is already cached counts as its latest insertion: *)
(* a capacity eviction removes the entry whose latest set or read-hit is the *)
(* oldest.                                                                   *)
C8_OverwriteRefreshesRecency ==
  (last.t = "set" /\ last.dropped # {}) => last.dropped = {last.lruWHead}

(* C9: a get returns the stored text while the entry's age is at most the    *)
(* TTL and leaves its creation time and text alone; once the age exceeds the *)
(* TTL it returns nothing and removes the entry; a set stores the text with  *)
(* the current time.  So no text is returned more than TTL after its set.    *)
C9_TtlRoundTrip ==
  /\ (last.t = "lookup" /\ last.had /\ last.age <= CACHE_TTL_MS) =>
       /\ last.text = last.stored
       /\ MapHas(cache, last.key)
       /\ ValueOf(cache, last.key) = last.stored
       /\ TsOf(cache, last.key) = last.at - last.age
  /\ (last.t = "lookup" /\ last.had /\ last.age > CACHE_TTL_MS) =>
       /\ last.text = Null
       /\ ~MapHas(cache, last.key)
  /\ (last.t = "lookup" /\ ~last.had) => last.text = Null
  /\ (last.t = "set" /\ CACHE_MAX_ENTRIES >= 1) =>
       /\ MapHas(cache, last.key)
       /\ ValueOf(cache, last.key) = last.text
       /\ TsOf(cache, last.key) = last.at

C9_Witness ==
  /\ last.t = "lookup" /\ last.had /\ last.age > CACHE_TTL_MS
  /\ last.text = Null
  /\ last.dropped = {last.key}
  /\ reqs[last.rid].pc = "invoking"

(* C10: the events of a finished streaming request are the provider's        *)
(* non-empty deltas in order followed by exactly one terminal event, done or *)
(* error, and a terminal event is never followed by another event.           *)
NonEmpty(seq) == SelectSeq(seq, LAMBDA d : Truthy(d))

DeltasOf(events) ==
  [i \in 1..Len(SelectSeq(events, LAMBDA e : e.type = "delta")) |->
     SelectSeq(events, LAMBDA e : e.type = "delta")[i].delta]

C10_OneTerminalEvent ==
  \A r \in Rids :
    (Accepted(r) /\ reqs[r].body.stream) =>
      /\ \A i \in 1..(Len(reqs[r].events) - 1) : reqs[r].events[i].type = "delta"
      /\ DeltasOf(reqs[r].events) = [i \in 1..Len(NonEmpty(reqs[r].emitted)) |->
                                       NonEmpty(reqs[r].emitted)[i].s]
      /\ reqs[r].pc = "done" =>
           /\ reqs[r].events # <<>>
           /\ reqs[r].events[Len(reqs[r].events)].type \in {"done", "error"}

(* C11: when a streaming request completes, the cache holds the              *)
(* concatenation of the deltas sent under the request's key, and the next    *)
(* non-streaming request with the same message and mode, within the TTL, is  *)
(* answered with cached: true and that text without a provider call, also    *)
(* when no non-empty delta was sent.                                         *)
DeltaText(r) ==
  Concat([i \in 1..Len(NonEmpty(reqs[r].emitted)) |-> NonEmpty(reqs[r].emitted)[i].s])

CompletedStream(r) ==
  /\ reqs[r].body.stream /\ reqs[r].pc = "done"
  /\ reqs[r].events # <<>>
  /\ reqs[r].events[Len(reqs[r].events)].type = "done"

C11_StreamedTextIsServedFromCache ==
  /\ (last.t = "set" /\ last.body.stream /\ CompletedStream(last.rid)) =>
       /\ reqs[last.rid].cacheKey = last.key
       /\ MapHas(cache, last.key)
       /\ ValueOf(cache, last.key) = JStr(DeltaText(last.rid), 0)
  /\ (last.t = "lookup" /\ last.followsStream /\ last.gap <= CACHE_TTL_MS
        /\ reqs[last.rid].body = last.body) =>
       /\ reqs[last.rid].pc = "done"
       /\ reqs[last.rid].cached
       /\ reqs[last.rid].json = last.doneText
       /\ reqs[last.rid].calls = 0

(* C12: once the event stream to the caller is open, a provider failure, at  *)
(* the start of the upstream stream or in the middle of it, is reported as   *)
(* exactly one terminal error event and the channel is closed; the status    *)
(* mapping of the catch block is never applied to such a request.            *)
ProviderFailed(r) ==
  /\ reqs[r].headersSent /\ reqs[r].pc = "done" /\ ~reqs[r].clientGone
  /\ ~CompletedStream(r)

C12_FailureReportedInBand ==
  \A r \in Rids :
    /\ reqs[r].headersSent => (reqs[r].errStatus = NoError /\ reqs[r].status = 0)
    /\ ProviderFailed(r) =>
         /\ reqs[r].events # <<>>
         /\ reqs[r].events[Len(reqs[r].events)].type = "error"
         /\ reqs[r].ended

(* C13: when the caller goes away after the event stream was opened and      *)
(* before the terminal event, the orchestrator closes the upstream stream:   *)
(* once such a request is finished, its upstream stream was closed by the    *)
(* orchestrator, or was never opened.                                        *)
C13_DisconnectClosesUpstream ==
  \A r \in Rids :
    (reqs[r].clientGone /\ reqs[r].pc = "done") => reqs[r].upstream \in {"closed", "none"}

(* C14: a provider failure on the non-streaming path gives one response:     *)
(* 429 for provider status 429, 500 for 401, 400 and every other failure,    *)
(* and the failing step leaves the cache as it was.                          *)
C14_ErrorMapping ==
  /\ [](\A r \in Rids :
         (~reqs[r].body.stream /\ reqs[r].errStatus # NoError) =>
           /\ reqs[r].pc = "done"
           /\ reqs[r].status = (IF reqs[r].errStatus = 429 THEN 429 ELSE 500)
           /\ reqs[r].error # ""
           /\ reqs[r].json = Null /\ ~reqs[r].cached
           /\ reqs[r].writes = 0 /\ reqs[r].calls = 1)
  /\ [][\A r \in Rids :
         (reqs'[r].errStatus # NoError /\ reqs[r].errStatus = NoError) => cache' = cache]_vars

(* a 401 answered with 500 while the cache holds another request's text *)
C14_Witness ==
  \E r \in Rids :
    /\ ~reqs[r].body.stream /\ reqs[r].errStatus = 401 /\ reqs[r].status = 500
    /\ cache # <<>>
    /\ ~MapHas(cache, reqs[r].cacheKey)

(* C15: the system text of a scholar-lane request that reaches the provider  *)
(* is the scholar policy, the MODE marker and exactly one of the labelled    *)
(* knowledge block with a non-empty text or the not-loaded marker, the       *)
(* latter exactly when the store's text is empty at that moment; the system  *)
(* text of a local-lane request is the local policy alone.                   *)
KnowledgeBlock == "KNOWLEDGE (approved sources):"
NotLoaded == <<"KNOWLEDGE: (not loaded)">>

ReachesProvider(r) == reqs[r].pc \in {"invoking", "opening"}

C15_PromptAssembly ==
  /\ [](\A r \in Rids :
         reqs[r].calls = 1 =>
           IF reqs[r].lane = "local"
           THEN reqs[r].systemText = <<SYSTEM_POLICY_LOCAL>>
           ELSE /\ Len(reqs[r].systemText) = 3
                /\ reqs[r].systemText[1] = SYSTEM_POLICY_SCHOLAR
                /\ reqs[r].systemText[2] = <<"MODE: ">> \o reqs[r].mode.s
                /\ \/ reqs[r].systemText[3] = NotLoaded
                   \/ /\ Head(reqs[r].systemText[3]) = KnowledgeBlock
                      /\ Len(reqs[r].systemText[3]) > 1)
  /\ [][\A r \in Rids :
         (~ReachesProvider(r) /\ ReachesProvider(r)' /\ reqs'[r].lane = "scholar") =>
           /\ reqs'[r].systemText[3] = NotLoaded <=> knowledgeText = <<>>
           /\ knowledgeText # <<>> =>
                reqs'[r].systemText[3] = <<KnowledgeBlock>> \o knowledgeText]_vars

C15_Witness ==
  \E r, q \in Rids :
    /\ ReachesProvider(r) /\ reqs[r].lane = "scholar"
    /\ reqs[r].systemText[3] = <<KnowledgeBlock>> \o knowledgeText
    /\ knowledgeText # <<>>
    /\ ReachesProvider(q) /\ reqs[q].lane = "local"
    /\ reqs[q].systemText = <<SYSTEM_POLICY_LOCAL>>

(* C16: once a load has succeeded, a load(false) that finds the file with a  *)
(* modification time not newer than the last loaded one ends at its stat     *)
(* step, returns false and leaves document, text and modification time as    *)
(* they were, whatever document the earlier load accepted.                   *)
C16_UnchangedFileIsNoOp ==
  [][\A l \in Lids :
       (/\ loads[l].pc = "stat" /\ ~loads[l].force
        /\ lastMtimeMs > 0
        /\ file.exists /\ file.mtimeMs <= lastMtimeMs
        /\ loads'[l] # loads[l]) =>
         /\ loads'[l].pc = "idle"
         /\ loads'[l].result = "false"
         /\ UNCHANGED kvars]_vars

(* C17: a load that ends while the file is missing or is not valid JSON      *)
(* throws and leaves document, text and modification time as they were; the  *)
(* server accepts requests once the startup load has ended, and a request    *)
(* is given the text the store holds, or the not-loaded marker.              *)
FileUnusable == ~file.exists \/ ~file.valid

C17_FailedLoadKeepsLastGood ==
  /\ [](loads[1].pc = "idle" => listening)
  /\ [][\A l \in Lids :
         (loads[l].pc # "idle" /\ loads'[l].pc = "idle" /\ FileUnusable) =>
           /\ UNCHANGED kvars
           /\ loads'[l].result = "throw"
           /\ listening']_vars
  /\ [][\A r \in Rids :
         (~ReachesProvider(r) /\ ReachesProvider(r)') =>
           reqs'[r].systemText[3] =
             (IF knowledgeText = <<>> THEN NotLoaded
              ELSE <<KnowledgeBlock>> \o knowledgeText)]_vars

C17_Witness ==
  /\ knowledgeText # <<>>
  /\ file.exists /\ ~file.valid /\ file.mtimeMs > lastMtimeMs
  /\ \E l \in Lids : loads[l].result = "throw"
  /\ \E r \in Rids :
       /\ reqs[r].pc = "invoking"
       /\ reqs[r].systemText[3] = <<KnowledgeBlock>> \o knowledgeText

(* C18: the store's document is absent or a well-formed document: a mapping  *)
(* of sections or a list of items; valid JSON of another shape is never      *)
(* installed.                                                                *)
IsSectionValue(v) == v.t \in {"string", "object"}

WellFormedDocument(x) ==
  /\ x.t = "object"
  /\ IF IsArray(Prop(x, P_items))
     THEN \A i \in 1..Len(Prop(x, P_items).a) : Prop(x, P_items).a[i].t = "object"
     ELSE \A i \in 1..Len(x.a) : IsSectionValue(x.a[i].v)

NothingInstalled == knowledgeJson = JNull /\ knowledgeText = <<>> /\ lastMtimeMs = 0

C18_OnlyDocumentsInstalled == NothingInstalled \/ WellFormedDocument(knowledgeJson)

(* C19: in every state the store's text is the rendering of its document,    *)
(* and the knowledge part of every request's system text is the rendering    *)
(* of one document, under every interleaving of loads and requests.          *)
Rendered(text) ==
  \E d \in KnowledgeContents \cup {JNull} :
    text = (IF buildKnowledgeText(d) = <<>> THEN NotLoaded
            ELSE <<KnowledgeBlock>> \o buildKnowledgeText(d))

C20_LoadsSerialized == Cardinality({l \in Lids : loads[l].pc = "read"}) <= 1

(* C21: a load that was overtaken by a load of a newer file state does not   *)
(* replace that load's snapshot: the installed modification time never       *)
(* moves backwards.                                                          *)
C21_ModificationTimeNeverRegresses == [][lastMtimeMs' >= lastMtimeMs]_vars

(* C22: in production an admin request is answered 403, with the cache and   *)
(* the knowledge store untouched, unless the configured key is non-empty and *)
(* the x-admin-key header or the adminKey body field equals it.              *)
Presents(key) == admin.header = JStr(key, 0) \/ admin.bodyKey = JStr(key, 0)

C22_AdminKeyGate ==
  (env.isProd /\ admin.path # "") =>
    (admin.status # 403 <=> (env.adminKey # <<>> /\ Presents(env.adminKey)))

(* C23: two accepted requests whose mode, lane or message differ never get   *)
(* the same key string, so neither is answered with the other's cached text. *)
Tuple(r) == <<reqs[r].mode, reqs[r].lane, reqs[r].body.message>>

C23_KeyInjective ==
  \A r, q \in Rids :
    (Accepted(r) /\ Accepted(q) /\ Tuple(r) # Tuple(q)) =>
      reqs[r].cacheKey # reqs[q].cacheKey

(* C24: the mode of an accepted request, used in the key and in the MODE     *)
(* marker, is official or community, and is official when the body has no    *)
(* mode.                                                                     *)
C24_ModeIsOfficialOrCommunity ==
  \A r \in Rids :
    Accepted(r) =>
      /\ reqs[r].mode \in {OFFICIAL, COMMUNITY}
      /\ reqs[r].body.mode = Undefined => reqs[r].mode = OFFICIAL

(* C25: with the timer firing again and again, if knowledge.json ends up     *)
(* readable, valid and unchanged, then from some point on the store's        *)
(* document and text are those of the file, also after a failed startup      *)
(* load.                                                                     *)
(* The file changes finitely often (MaxMtime), so it is stable in the end.   *)
Usable == file.exists /\ file.valid

Synced ==
  /\ knowledgeJson = file.json
  /\ knowledgeText = buildKnowledgeText(file.json)
  /\ getText = buildKnowledgeText(file.json)

C27_LoadKeepsCache ==
  /\ [][(kvars' # kvars \/ loads' # loads) => cache' = cache]_vars
  /\ [](last.t = "lookup" /\ last.had /\ last.age <= CACHE_TTL_MS =>
          /\ last.text = last.stored
          /\ reqs[last.rid].cached /\ reqs[last.rid].json = last.stored)

(* a hit on an entry whose prompt held another knowledge text than the one   *)
(* installed at the time of the hit                                          *)
C27_Witness ==
  /\ last.t = "lookup" /\ reqs[last.rid].cached
  /\ \E q \in Rids \ {last.rid} :
       /\ reqs[q].cacheKey = last.key /\ reqs[q].writes = 1
       /\ reqs[q].json = reqs[last.rid].json
       /\ reqs[q].systemText # SystemText(reqs[q].lane, reqs[q].mode, last.kb)
       /\ last.kb # <<>>

(* C28: a non-streaming request answered with cached: false got a non-empty  *)
(* text, the provider's output or the sentinel when that output is empty,    *)
(* and that same text is what its cache write stored under its key; a        *)
(* sentinel stored this way is served to the next identical request within   *)
(* the TTL.                                                                  *)
C28_ReturnedTextIsCachedText ==
  /\ \A r \in Rids :
       (~reqs[r].body.stream /\ reqs[r].pc = "done" /\ reqs[r].status = 200
          /\ ~reqs[r].cached) =>
         /\ reqs[r].json = (IF Truthy(reqs[r].output) THEN reqs[r].output ELSE SENTINEL)
         /\ Truthy(reqs[r].json)
         /\ reqs[r].writes = 1
  /\ (last.t = "set" /\ ~last.body.stream) =>
       /\ MapHas(cache, last.key)
       /\ ValueOf(cache, last.key) = last.text
       /\ reqs[last.rid].writes = 1 =>
            /\ reqs[last.rid].cacheKey = last.key
            /\ reqs[last.rid].json = last.text
  /\ (last.t = "lookup" /\ last.follows /\ last.gap <= CACHE_TTL_MS
        /\ last.doneText = SENTINEL /\ reqs[last.rid].body = last.body) =>
       /\ reqs[last.rid].cached
       /\ reqs[last.rid].json = SENTINEL

(* the provider returned an empty output, and the next identical request got *)
(* the sentinel from the cache                                               *)
C28_Witness ==
  /\ last.t = "lookup" /\ last.follows /\ last.doneText = SENTINEL
  /\ reqs[last.rid].cached /\ reqs[last.rid].json = SENTINEL
  /\ ValueOf(cache, last.key) = SENTINEL

(* C29: every text that enters the cache, as a new entry or over an old one, *)
(* is written by a request with the entry's key at the moment its provider   *)
(* call finishes with success, and is the complete output of that call; a    *)
(* stream that ended in an error or was cut off by the caller stores nothing.*)
Written(k) ==
  \/ ~MapHas(cache, k)
  \/ ValueOf(cache', k) # ValueOf(cache, k)
  \/ TsOf(cache', k) # TsOf(cache, k)

Finishing(r, k) ==
  /\ reqs[r].cacheKey = k /\ reqs'[r].cacheKey = k
  /\ reqs[r].pc \in {"invoking", "streaming"} /\ reqs'[r].pc = "done"
  /\ reqs'[r].errStatus = NoError
  /\ reqs'[r].body.stream =>
       (reqs'[r].events # <<>> /\ reqs'[r].events[Len(reqs'[r].events)].type = "done")

ProviderOutput(r) ==
  IF reqs[r].body.stream THEN JStr(reqs[r].fullText, 0) ELSE reqs[r].output

StoredOutput(r) ==
  IF Truthy(ProviderOutput(r)) \/ reqs[r].body.stream THEN ProviderOutput(r) ELSE SENTINEL

Unfinished(r) ==
  /\ reqs[r].body.stream /\ reqs[r].pc = "done" /\ ~CompletedStream(r)

StoredOrderText(doc) ==
  Trim(JoinWith(Concat([i \in 1..Len(doc.a) |-> SectionLines(doc.a[i])]), <<"\n">>))

C30_SectionsInStoredOrder ==
  (knowledgeJson.t = "object" /\ ~IsArray(Prop(knowledgeJson, P_items))) =>
    knowledgeText = StoredOrderText(knowledgeJson)

=============================================================================
